---- MODULE Spec2Model ----
(***************************************************************************)
(* Model of the news service's topic-aggregation engine (src/agent.py):    *)
(* the sequential categorization fold into persistent_memory, in its       *)
(* batch form (provideNews_advanced) and its streaming form                *)
(* (generate_news_streaming), and the concurrent summarization fan-out     *)
(* with the SSE event stream and the persistence callback; and the         *)
(* /generate-news request handler of src/app.py, which calls the batch     *)
(* form and persists what it returns.  Two further components have a       *)
(* specification of their own: the OpenRouterClient that serves every      *)
(* request (src/openrouterClient.py) and the /update-sources handler of    *)
(* src/app.py.                                                             *)
(*                                                                         *)
(* Strings that the code inspects character by character (topic names:     *)
(* str.lower, str.strip, truthiness) are sequences of one-character        *)
(* strings.  URLs are only compared for equality and stay atoms.           *)
(* List positions are 1-based here and 0-based in the code; the 'index'    *)
(* field of a summary event keeps the code's 0-based value.                *)
(***************************************************************************)
EXTENDS Integers, Sequences, FiniteSets, TLC

VARIABLES
    mode,          \* "stream": generate_news_streaming, "batch": provideNews_advanced,
                   \* "suggest": suggestNewsSources
    pc,            \* position of the run in its function body
    sources,       \* the sources argument: list of URLs
    idx,           \* number of content items whose classification was requested
    respLen,       \* len(categorization_response["assignments"]) of the current item
    aidx,          \* number of assignments of the current item already folded
    lastAsg,       \* the assignment folded last
    before,        \* persistent_memory as it was when that assignment's turn began
    frAdded,       \* number of furtherReading URLs the last fold appended
    topics,        \* persistent_memory: list of Topic(name, sources)
    events,        \* SSE events yielded so far
    atYield,       \* the generator is suspended at a yield
    done,          \* set of task positions whose summarization completed
    k,             \* idx of the as_completed loop: completions consumed so far
    db_summaries,  \* the results buffer
    persisted,     \* arguments of the db_updater calls made so far
    gathered,      \* batch: results asyncio.gather has collected, by task position
    result,        \* batch: what provideNews_advanced returned or raised
    skip,          \* categorization_response.get("skip") of the current item
    failure,       \* the external call that raised, and where the run stood
    caller,        \* "generate_news" when the request handler runs, else "none"
    response,      \* the handler's HTTP response, status 0 while there is none
    update_news_calls,  \* summaries arguments of the update_news calls made
    prompt,        \* the categorization prompt of the last classification request
    order,         \* positions of the summarization tasks in their order of completion
    suggested,     \* suggestNewsSources: the sources the suggestion request returned
    headOutcome,   \* suggestNewsSources: outcome of each probe's HEAD request so far
    runs,          \* two runs executing interleaved: the locals of each
    boundary,      \* persistent_memory as it was when the summarization tasks were created
    fetched,       \* per task, the sources whose pages the task fetched
    model_id,      \* OpenRouterClient: self.model_id
    requests,      \* OpenRouterClient: the requests made, with the model each payload named
    body,          \* /update-sources: the JSON body of the request
    reply,         \* /update-sources: the handler's response, status 0 while there is none
    update_sources_calls   \* /update-sources: sources arguments of the update_sources calls

vars == <<mode, pc, sources, idx, respLen, aidx, lastAsg, before, frAdded,
          topics, events, atYield, done, k, db_summaries, persisted, gathered,
          result, skip, failure, caller, response, update_news_calls,
          prompt, order, suggested, headOutcome, runs, boundary, fetched,
          model_id, requests, body, reply, update_sources_calls>>

-----------------------------------------------------------------------------
(* Bounds of the model *)

MaxSources == 2        \* longest sources list
MaxAssign == 1         \* longest assignments list of an ordinary classifier response
MaxExtra == 1          \* how far an oversized response exceeds the schema's limits
MaxCalls == 3          \* most calls made on one OpenRouterClient
MaxSubmitted == 2      \* longest sources list submitted to /update-sources
MaxSuggested == 2      \* longest list of suggested sources

(* Limits stated by the response schema *)
maxItemsFurtherReadings == 3
maxItemsAssignments == 5

-----------------------------------------------------------------------------
(* Strings *)

Tech == <<"T", "e", "c", "h">>
tech == <<"t", "e", "c", "h">>
AI == <<"A", "I">>
Blank == <<" ">>
Empty == <<>>

TopicNames == {Tech, tech, AI, Blank, Empty}

\* str.lower, one character
LowerChar(c) ==
    CASE c = "T" -> "t"
      [] c = "A" -> "a"
      [] c = "I" -> "i"
      [] OTHER -> c

\* str.lower
Lower(s) == [i \in DOMAIN s |-> LowerChar(s[i])]

IsSpace(c) == c \in {" ", "\t", "\n"}

RECURSIVE LStrip(_)
LStrip(s) == IF s # <<>> /\ IsSpace(Head(s)) THEN LStrip(Tail(s)) ELSE s

RECURSIVE RStrip(_)
RStrip(s) ==
    IF s # <<>> /\ IsSpace(s[Len(s)]) THEN RStrip(SubSeq(s, 1, Len(s) - 1)) ELSE s

\* str.strip
Strip(s) == RStrip(LStrip(s))

-----------------------------------------------------------------------------
(* Lists *)

Contains(seq, x) == \E i \in DOMAIN seq : seq[i] = x

NoDuplicates(seq) == \A i, j \in DOMAIN seq : i # j => seq[i] # seq[j]

-----------------------------------------------------------------------------
(* The reachability probe *)

\* The URLs whose HEAD request answers with a status below 400: the sources
\* and u1; the other furtherReading URLs time out or answer with an error.
Reachable == {"A", "B", "C", "D", "u1"}

\* What the coroutine isValidUrl computes once it runs.
isValidUrl(url) == url \in Reachable

\* What the categorization code tests: isValidUrl is an async def and the
\* call sites do not await it, so the tested value is a coroutine object,
\* which is true whatever the URL.
isValidUrlCall(url) == TRUE

\* source.get("url") of a suggested source that has no "url" key
None == "<None>"

\* final statuses of a HEAD request that follows redirects
FinalStatuses == {200, 399, 400}

NoOutcome == [kind |-> "none", status |-> 0, exc |-> ""]

StatusOutcome(status) == [kind |-> "status", status |-> status, exc |-> ""]

RaisedOutcome(exc) == [kind |-> "raised", status |-> 0, exc |-> exc]

\* What "async with session.head(source, allow_redirects=True)" may come to:
\* a response with a final status, a transport error (aiohttp.ClientError,
\* which an invalid URL string also raises), a timeout
\* (asyncio.TimeoutError), and for a source that is no string the TypeError
\* of the URL constructor.
HeadOutcomes(source) ==
    IF source = None THEN {RaisedOutcome("TypeError")}
    ELSE {StatusOutcome(st) : st \in FinalStatuses}
            \cup {RaisedOutcome("ClientError"), RaisedOutcome("TimeoutError")}

\* except (aiohttp.ClientError, asyncio.TimeoutError)
CaughtByProbe == {"ClientError", "TimeoutError"}

\* The coroutine isValidUrl run to its end on the given outcome of the HEAD
\* request: what it returns, or that it raises.
isValidUrlAwaited(outcome) ==
    IF outcome.kind = "status"
    THEN [kind |-> "returned", value |-> outcome.status < 400]
    ELSE IF outcome.exc \in CaughtByProbe
    THEN [kind |-> "returned", value |-> FALSE]
    ELSE [kind |-> "raised", value |-> FALSE]

-----------------------------------------------------------------------------
(* persistent_memory *)

Topic(name, srcs) == [name |-> name, sources |-> srcs]

\* FindTopic comparing the names as they are written
FindTopicExact(mem, topic_name) ==
    IF \E i \in DOMAIN mem : mem[i].name = topic_name
    THEN CHOOSE i \in DOMAIN mem :
            /\ mem[i].name = topic_name
            /\ \A j \in DOMAIN mem : mem[j].name = topic_name => i <= j
    ELSE 0

\* next((t for t in persistent_memory if t.name.lower() == topic_name.lower()), None)
\* as a position, 0 for None
FindTopic(mem, topic_name) ==
    IF \E i \in DOMAIN mem : Lower(mem[i].name) = Lower(topic_name)
    THEN CHOOSE i \in DOMAIN mem :
            /\ Lower(mem[i].name) = Lower(topic_name)
            /\ \A j \in DOMAIN mem : Lower(mem[j].name) = Lower(topic_name) => i <= j
    ELSE 0

\* AddItemUrl putting the item's URL in front of the topic's sources
AddItemUrlFirst(srcs, url) == IF Contains(srcs, url) THEN srcs ELSE <<url>> \o srcs

\* if content_item["url"] not in topic.sources: topic.sources.append(...)
AddItemUrl(srcs, url) == IF Contains(srcs, url) THEN srcs ELSE Append(srcs, url)

\* batch: the list comprehension that replaces assignment["furtherReadings"]
FilterFurtherReadings(frs) ==
    IF frs # <<>> THEN SelectSeq(frs, isValidUrlCall) ELSE frs

\* batch: for url in further_readings: if url not in topic.sources: append
RECURSIVE BatchMergeReadings(_, _)
BatchMergeReadings(srcs, frs) ==
    IF frs = <<>> THEN srcs
    ELSE BatchMergeReadings(
            IF ~Contains(srcs, Head(frs)) THEN Append(srcs, Head(frs)) ELSE srcs,
            Tail(frs))

\* streaming: for url in further_readings:
\*                if url not in topic.sources and isValidUrl(url): append
RECURSIVE StreamMergeReadings(_, _)
StreamMergeReadings(srcs, frs) ==
    IF frs = <<>> THEN srcs
    ELSE StreamMergeReadings(
            IF ~Contains(srcs, Head(frs)) /\ isValidUrlCall(Head(frs))
            THEN Append(srcs, Head(frs)) ELSE srcs,
            Tail(frs))

\* streaming: for url in further_readings:
\*                if isValidUrl(url): new_topic.sources.append(url)
RECURSIVE StreamCreateReadings(_, _)
StreamCreateReadings(srcs, frs) ==
    IF frs = <<>> THEN srcs
    ELSE StreamCreateReadings(
            IF isValidUrlCall(Head(frs)) THEN Append(srcs, Head(frs)) ELSE srcs,
            Tail(frs))

\* batch: if not topic_name or topic_name.strip() == "": continue
BatchSkipsName(topic_name) == topic_name = <<>> \/ Strip(topic_name) = <<>>

\* streaming: if not topic_name: continue
StreamSkipsName(topic_name) == topic_name = <<>>

\* batch: the item's URL and the furtherReadings go to the topic found
BatchMerge(mem, t, url, frs) ==
    [mem EXCEPT ![t].sources =
        BatchMergeReadings(AddItemUrl(mem[t].sources, url), frs)]

\* batch: sources_list = [url]; sources_list.extend(further_readings);
\* persistent_memory.append(Topic(name=topic_name, sources=sources_list))
BatchCreate(mem, topic_name, url, frs) ==
    Append(mem, Topic(topic_name, <<url>> \o frs))

\* batch, "if is_new:", t the position of the topic found or 0
BatchFoldIsNew(mem, t, topic_name, url, frs) ==
    IF t # 0 THEN BatchMerge(mem, t, url, frs)
    ELSE BatchCreate(mem, topic_name, url, frs)

\* batch, the else branch of "if is_new:"
BatchFoldNotNew(mem, t, topic_name, url, frs) ==
    IF t # 0 THEN BatchMerge(mem, t, url, frs)
    ELSE BatchCreate(mem, topic_name, url, frs)

\* One iteration of the batch assignment loop.
BatchFold(mem, url, asg) ==
    LET frs == FilterFurtherReadings(asg.furtherReadings)
        t == FindTopic(mem, asg.topicName)
    IN  IF BatchSkipsName(asg.topicName) THEN mem
        ELSE IF asg.isNew
        THEN BatchFoldIsNew(mem, t, asg.topicName, url, frs)
        ELSE BatchFoldNotNew(mem, t, asg.topicName, url, frs)

\* streaming: the item's URL and the furtherReadings go to the topic found
StreamMerge(mem, t, url, frs) ==
    [mem EXCEPT ![t].sources =
        StreamMergeReadings(AddItemUrl(mem[t].sources, url), frs)]

\* streaming: new_topic = Topic(name=topic_name, sources=[url]); the
\* furtherReadings loop; persistent_memory.append(new_topic)
StreamCreate(mem, topic_name, url, frs) ==
    Append(mem, Topic(topic_name, StreamCreateReadings(<<url>>, frs)))

\* StreamFoldIsNew trusting is_new: the topic is created without a look at
\* the topic found
StreamFoldIsNewAlwaysCreates(mem, t, topic_name, url, frs) ==
    StreamCreate(mem, topic_name, url, frs)

\* streaming, "if is_new:", without the yield
StreamFoldIsNew(mem, t, topic_name, url, frs) ==
    IF t # 0 THEN StreamMerge(mem, t, url, frs)
    ELSE StreamCreate(mem, topic_name, url, frs)

\* StreamFoldNotNew dropping an assignment to a topic that is not found
StreamFoldNotNewDropsUnknown(mem, t, topic_name, url, frs) ==
    IF t # 0 THEN StreamMerge(mem, t, url, frs)
    ELSE mem

\* streaming, the else branch of "if is_new:", without the yield
StreamFoldNotNew(mem, t, topic_name, url, frs) ==
    IF t # 0 THEN StreamMerge(mem, t, url, frs)
    ELSE StreamCreate(mem, topic_name, url, frs)

\* One iteration of the streaming assignment loop, without its yield.
StreamFold(mem, url, asg) ==
    LET frs == asg.furtherReadings
        t == FindTopic(mem, asg.topicName)
    IN  IF StreamSkipsName(asg.topicName) THEN mem
        ELSE IF asg.isNew
        THEN StreamFoldIsNew(mem, t, asg.topicName, url, frs)
        ELSE StreamFoldNotNew(mem, t, asg.topicName, url, frs)

\* Number of furtherReading URLs a fold appended to the topic it touched.
ReadingsAdded(mem, newMem, url, asg) ==
    LET t == FindTopic(mem, asg.topicName)
    IN  IF newMem = mem THEN 0
        ELSE IF t = 0 THEN Len(newMem[Len(newMem)].sources) - 1
        ELSE Len(newMem[t].sources) - Len(AddItemUrl(mem[t].sources, url))

-----------------------------------------------------------------------------
(* Inputs *)

SourceUrls == <<"A", "B", "C", "D">>

\* furtherReading URLs the classifier may name besides the item's own URL
ReadingUrls == <<"u1", "u2", "u3", "u4", "u5", "u6">>

\* a furtherReadings list within the schema's maxItems that names the item's
\* own URL and repeats a URL
Readings(url) == <<url, "u1", "u1">>

\* a furtherReadings list longer than the schema's maxItems
LongReadings == SubSeq(ReadingUrls, 1, maxItemsFurtherReadings + MaxExtra)

\* The assignments an ordinary classifier response for the item at url may
\* contain; an absent furtherReadings key reads as the empty list.  Only
\* the assignments to Tech and tech come with furtherReadings.
Assignments(url) ==
    [topicName : {Tech, tech}, isNew : BOOLEAN,
     furtherReadings : {<<>>, Readings(url)}]
        \cup [topicName : TopicNames \ {Tech, tech}, isNew : BOOLEAN,
              furtherReadings : {<<>>}]

\* The assignments of a response that exceeds the schema's limits.
OversizedAssignments ==
    [topicName : {AI}, isNew : BOOLEAN, furtherReadings : {<<>>, LongReadings}]

\* lengths of the assignments list of a response that is not skipped
ResponseLengths == (1..MaxAssign) \cup {maxItemsAssignments + MaxExtra}

AssignmentChoices(url, n) ==
    IF n <= MaxAssign THEN Assignments(url) ELSE OversizedAssignments

NoAssignment == [topicName |-> <<>>, isNew |-> FALSE, furtherReadings |-> <<>>]

\* the structured output returned by the summarization call of the task created
\* for the topic at position i
SummaryOf(i) == <<"summary", i>>

\* "" as a list of characters
EmptyString == <<>>

\* the task has not fetched anything yet
NotFetched == <<>>

\* SourcesFetched fetching only the source that created the topic
SourcesFetchedFirstOnly(topic) == <<topic.sources[1]>>

\* html_list = [fetch_webpage_python(src) for src in topic.sources]: the
\* sources the coroutine reads from its Topic object when it runs
SourcesFetched(topic) == topic.sources

\* chr(10).join(names)
RECURSIVE Join(_)
Join(names) ==
    IF names = <<>> THEN <<>>
    ELSE IF Len(names) = 1 THEN Head(names)
    ELSE Head(names) \o <<"\n">> \o Join(Tail(names))

\* create_categorization_prompt leaving out the topic created last
create_categorization_promptStale(mem, content) ==
    [existing_topics |->
        Join([i \in 1..(Len(mem) - 1) |-> mem[i].name]),
     content |-> content]

\* the parts of the categorization prompt that vary: the names of the topics
\* of persistent_memory, one per line, and the item's content (each item's
\* content is identified by the item's URL)
create_categorization_prompt(mem, content) ==
    [existing_topics |-> Join([i \in DOMAIN mem |-> mem[i].name]),
     content |-> content]

NoPrompt == [existing_topics |-> <<>>, content |-> ""]

\* the suggested sources: url is source.get("url")
SuggestedSources == [name : {"s"}, url : {"A", "B", None}]

RECURSIVE SeqsUpTo(_, _)
SeqsUpTo(S, n) ==
    IF n = 0 THEN {<<>>}
    ELSE LET shorter == SeqsUpTo(S, n - 1)
         IN  shorter \cup {Append(q, x) : q \in shorter, x \in S}

\* response.get("sources", [])
SuggestedLists == SeqsUpTo(SuggestedSources, MaxSuggested)

\* ValidSources keeping every source
ValidSourcesUnfiltered(srcs, validation_results) == srcs

\* [source for source, is_valid in zip(sources, validation_results) if is_valid]
ValidSources(srcs, validation_results) ==
    LET kept == {i \in DOMAIN srcs : validation_results[i]}
        RECURSIVE Pick(_)
        Pick(i) == IF i > Len(srcs) THEN <<>>
                   ELSE IF i \in kept THEN <<srcs[i]>> \o Pick(i + 1)
                   ELSE Pick(i + 1)
    IN  Pick(1)

-----------------------------------------------------------------------------
(* SSE events; sse_event only formats them *)

StartEvent == [type |-> "start"]
StatusEvent == [type |-> "status"]
\* TopicEvent counting the topics before the append
TopicEventCountsBefore(name, total) ==
    [type |-> "topic", topicName |-> name, totalTopics |-> total - 1]

TopicEvent(name, total) == [type |-> "topic", topicName |-> name, totalTopics |-> total]
SummaryEvent(i, name, summary) ==
    [type |-> "summary", index |-> i, topic |-> name, summary |-> summary]
DoneEvent == [type |-> "done"]
ErrorEvent == [type |-> "error"]

Yield(e) == events' = Append(events, e) /\ atYield' = TRUE

\* no external call has raised
NoFailure == [stage |-> "none", item |-> 0, summaries |-> 0]

\* the external call of the given stage raises now, item content items
\* having been handed to the classifier and k summaries streamed
Failure(stage, item) == [stage |-> stage, item |-> item, summaries |-> k]

\* the handler has not answered yet
NoResponse == [status |-> 0, summaries |-> <<>>]

\* return jsonify({'error': ...}), status
ErrorResponse(status) == [status |-> status, summaries |-> <<>>]

\* return jsonify({'summaries': summaries, ...})
OkResponse(summaries) == [status |-> 200, summaries |-> summaries]

\* the names app.py binds from agent
ImportedFromAgent == {"suggestNewsSources", "generate_topics", "generate_topic_summary"}

\* RaiseInStream with an except clause that yields nothing
RaiseInStreamSilent ==
    /\ events' = events /\ atYield' = FALSE
    /\ pc' = "failed"

\* except Exception as e: yield sse_event("error", ...), after which the
\* generator returns
RaiseInStream ==
    /\ Yield(ErrorEvent)
    /\ pc' = "failed"

\* RaiseInBatch swallowing the exception: the function returns the empty list
RaiseInBatchReturnsEmpty ==
    /\ result' = [kind |-> "returned", value |-> <<>>]
    /\ pc' = "finished"
    /\ response' = IF caller = "generate_news" THEN OkResponse(<<>>) ELSE response
    /\ UNCHANGED <<events, atYield>>

\* except Exception as error: print(...); raise.  In the request handler the
\* exception reaches "except Exception as e: return jsonify(...), 500".
RaiseInBatch ==
    /\ result' = [kind |-> "raised", value |-> <<>>]
    /\ pc' = "failed"
    /\ response' = IF caller = "generate_news" THEN ErrorResponse(500) ELSE response
    /\ UNCHANGED <<events, atYield>>

Raise ==
    IF mode = "stream"
    THEN RaiseInStream /\ UNCHANGED <<result, response>>
    ELSE RaiseInBatch

\* return news_summary_response_items.  In the request handler the summaries
\* go to update_news and into the response.
Return(summaries) ==
    /\ result' = [kind |-> "returned", value |-> summaries]
    /\ pc' = "finished"
    /\ IF caller = "generate_news"
       THEN /\ update_news_calls' = Append(update_news_calls, summaries)
            /\ response' = OkResponse(summaries)
       ELSE UNCHANGED <<update_news_calls, response>>

-----------------------------------------------------------------------------
(* OpenRouterClient (src/openrouterClient.py).  A model id is a string     *)
(* that the code only extends: it is the list of the pieces it was put     *)
(* together from.                                                          *)

\* the model id app.py hands to the constructor of llm_client
ConstructorModelId == <<"google/gemini-flash-1.5-8b">>

\* ":online"
OnlineSuffix == <<":online">>

\* if online: self.model_id = self.model_id + ":online"
\* the value of self.model_id after the statement
ModelIdAfterFlag(current, online) ==
    IF online THEN current \o OnlineSuffix ELSE current

\* what a step that makes no request leaves alone
ClientUntouched == UNCHANGED <<model_id, requests>>

-----------------------------------------------------------------------------
(* The /update-sources handler (src/app.py).  A JSON value carries its     *)
(* type; a string value carries its characters; a dict is a function on    *)
(* Keys that gives Absent for a key the dict does not have.                *)

\* required_fields = ['description', 'name', 'url']
required_fields == <<"description", "name", "url">>

\* the keys a submitted source may have: the required ones and one more
Keys == {"description", "name", "url", "id"}

Absent == [type |-> "absent", chars |-> <<>>]
Str(chars) == [type |-> "str", chars |-> chars]
Number == [type |-> "int", chars |-> <<>>]

Dict(fields) == [type |-> "dict", fields |-> fields]
\* a source that is a string, not an object
NotADict == [type |-> "str", fields |-> [key \in Keys |-> Absent]]

List(items) == [type |-> "list", items |-> items]
NotAList == [type |-> "str", items |-> <<>>]
NoSourcesKey == [type |-> "absent", items |-> <<>>]

\* no request has been received
NoBody == [sources |-> [type |-> "none", items |-> <<>>]]

\* the handler has not answered yet
NoReply == [status |-> 0, new_sources |-> <<>>]

\* return jsonify({'error': ...}), 400; 500 when update_sources raises
ErrorReply(status) == [status |-> status, new_sources |-> <<>>]

\* return jsonify({'new_sources': filtered_sources}), 200
OkReply(new_sources) == [status |-> 200, new_sources |-> new_sources]

\* sources = data.get('sources', [])
SourcesOf(data) ==
    IF data.sources.type = "absent" THEN List(<<>>) ELSE data.sources

\* the three tests of one field: field not in source, not isinstance(
\* source[field], str), not source[field].strip()
FieldRejected(source, field) ==
    \/ source.fields[field].type = "absent"
    \/ source.fields[field].type # "str"
    \/ Strip(source.fields[field].chars) = <<>>

\* the tests of one source: not isinstance(source, dict), then its fields
SourceRejected(source) ==
    \/ source.type # "dict"
    \/ \E f \in DOMAIN required_fields : FieldRejected(source, required_fields[f])

\* filtered_source = {field: source[field] for field in required_fields}
FilteredSource(source) ==
    [field \in {required_fields[f] : f \in DOMAIN required_fields} |->
        source.fields[field].chars]

\* UniqueSources without the seen_urls test
UniqueSourcesUnfiltered(filtered_sources, seen_urls) == filtered_sources

\* for source in filtered_sources: if source['url'] not in seen_urls:
\*     seen_urls.add(source['url']); unique_sources.append(source)
RECURSIVE UniqueSources(_, _)
UniqueSources(filtered_sources, seen_urls) ==
    IF filtered_sources = <<>> THEN <<>>
    ELSE LET source == Head(filtered_sources)
         IN  IF source.url \notin seen_urls
             THEN <<source>> \o UniqueSources(Tail(filtered_sources),
                                              seen_urls \cup {source.url})
             ELSE UniqueSources(Tail(filtered_sources), seen_urls)

\* a source with the three required fields, and the key id when extra is
\* not Absent
GoodSource(name, url, extra) ==
    Dict([key \in Keys |->
            IF key = "description" THEN Str(<<"d">>)
            ELSE IF key = "name" THEN Str(name)
            ELSE IF key = "url" THEN Str(url)
            ELSE extra])

\* a source whose field has the given value
WithField(source, field, value) ==
    Dict([source.fields EXCEPT ![field] = value])

\* the values a client may submit as a source: well-formed ones, with or
\* without another key, and ones that fail each of the handler's tests
SubmittedSources ==
    {GoodSource(name, url, extra) :
        name \in {<<"n">>, <<"m">>}, url \in {<<"A">>, <<"B">>},
        extra \in {Absent, Number}}
    \cup {NotADict,
          WithField(GoodSource(<<"n">>, <<"A">>, Absent), "url", Absent),
          WithField(GoodSource(<<"n">>, <<"A">>, Absent), "url", Number),
          WithField(GoodSource(<<"n">>, <<"A">>, Absent), "url", Str(<<" ">>)),
          WithField(GoodSource(<<"n">>, <<"A">>, Absent), "name", Str(<<>>)),
          WithField(GoodSource(<<"n">>, <<"A">>, Absent), "description", Absent)}

\* the JSON bodies of the requests
Bodies ==
    {[sources |-> v] :
        v \in {NotAList, NoSourcesKey}
              \cup {List(items) : items \in SeqsUpTo(SubmittedSources, MaxSubmitted)}}

\* what a step outside the handler leaves alone
UpdateSourcesUntouched == UNCHANGED <<body, reply, update_sources_calls>>

-----------------------------------------------------------------------------
(* Two runs of the categorization and of the start of the summarization,   *)
(* interleaved.  Each call has its own locals; the classifier's answers    *)
(* are kept to compare a run with the same run executed alone.             *)

Runs == {1, 2}

\* the locals of a call that has not begun
IdleRun ==
    [mode |-> "none", stage |-> "idle", sources |-> <<>>, idx |-> 0,
     persistent_memory |-> <<>>, topic_events |-> <<>>, answers |-> <<>>,
     summarized |-> <<>>]

NoRuns == [r \in Runs |-> IdleRun]

\* the locals after "persistent_memory = []" and the ingestion
NewRun(m, srcs) ==
    [mode |-> m, stage |-> "categorize", sources |-> srcs, idx |-> 0,
     persistent_memory |-> <<>>, topic_events |-> <<>>, answers |-> <<>>,
     summarized |-> <<>>]

\* the assignments lists of the classifier's answers: none (or skip), or one
\* assignment
RunResponses ==
    {<<>>} \cup {<<asg>> : asg \in [topicName : {Tech, tech, AI, Blank},
                                     isNew : {TRUE}, furtherReadings : {<<>>}]}

\* StoreOfRun with persistent_memory a module-level list that the first call
\* created
StoreOfRunGlobal(rs, r) == rs[1].persistent_memory

\* persistent_memory is a local of the call: each run reads its own list
StoreOfRun(rs, r) == rs[r].persistent_memory

\* the assignment loop of one content item
FoldResponse(m, mem, url, assignments) ==
    IF assignments = <<>> THEN mem
    ELSE IF m = "batch" THEN BatchFold(mem, url, assignments[1])
    ELSE StreamFold(mem, url, assignments[1])

\* One iteration of the categorization loop of run r: classification of the
\* next content item and the fold of its assignments, with the 'topic' event
\* of a created topic in streaming.
RunCategorizesItem(r) ==
    /\ runs[r].stage = "categorize"
    /\ runs[r].idx < Len(runs[r].sources)
    /\ \E assignments \in RunResponses :
          LET mem == StoreOfRun(runs, r)
              new == FoldResponse(runs[r].mode, mem,
                                  runs[r].sources[runs[r].idx + 1], assignments)
          IN  runs' = [runs EXCEPT ![r] =
                  [@ EXCEPT !.idx = @ + 1,
                            !.persistent_memory = new,
                            !.answers = Append(@, assignments),
                            !.topic_events =
                                IF runs[r].mode = "stream" /\ Len(new) > Len(mem)
                                THEN Append(@, TopicEvent(new[Len(new)].name, Len(new)))
                                ELSE @]]
    /\ UNCHANGED <<mode, pc, sources, idx, respLen, aidx, lastAsg, before,
                   frAdded, topics, events, atYield, done, k, db_summaries,
                   persisted, gathered, result, skip, failure, caller, response,
                   update_news_calls, prompt, order, suggested, headOutcome,
                   boundary, fetched, model_id, requests, body, reply,
                   update_sources_calls>>

\* After the last content item run r creates one summarization task per topic
\* of its store.
RunStartsSummaries(r) ==
    /\ runs[r].stage = "categorize"
    /\ runs[r].idx = Len(runs[r].sources)
    /\ runs' = [runs EXCEPT ![r] =
          [@ EXCEPT !.stage = "summarize",
                    !.summarized = StoreOfRun(runs, r)]]
    /\ UNCHANGED <<mode, pc, sources, idx, respLen, aidx, lastAsg, before,
                   frAdded, topics, events, atYield, done, k, db_summaries,
                   persisted, gathered, result, skip, failure, caller, response,
                   update_news_calls, prompt, order, suggested, headOutcome,
                   boundary, fetched, model_id, requests, body, reply,
                   update_sources_calls>>

\* no run of the pipeline or of suggestNewsSources has begun
IdlePipeline ==
    /\ caller = "none"
    /\ sources = <<>>
    /\ idx = 0
    /\ respLen = 0
    /\ aidx = 0
    /\ lastAsg = NoAssignment
    /\ before = <<>>
    /\ frAdded = 0
    /\ topics = <<>>
    /\ events = <<>>
    /\ atYield = FALSE
    /\ done = {}
    /\ k = 0
    /\ db_summaries = <<>>
    /\ persisted = <<>>
    /\ gathered = <<>>
    /\ result = [kind |-> "none", value |-> <<>>]
    /\ skip = FALSE
    /\ failure = NoFailure
    /\ response = NoResponse
    /\ update_news_calls = <<>>
    /\ prompt = NoPrompt
    /\ order = <<>>
    /\ suggested = <<>>
    /\ headOutcome = <<>>
    /\ boundary = <<>>
    /\ fetched = <<>>
    /\ runs = NoRuns

InitConcurrent ==
    /\ mode = "runs"
    /\ caller = "none"
    /\ pc = "runs"
    /\ sources = <<>>
    /\ idx = 0
    /\ respLen = 0
    /\ aidx = 0
    /\ lastAsg = NoAssignment
    /\ before = <<>>
    /\ frAdded = 0
    /\ topics = <<>>
    /\ events = <<>>
    /\ atYield = FALSE
    /\ done = {}
    /\ k = 0
    /\ db_summaries = <<>>
    /\ persisted = <<>>
    /\ gathered = <<>>
    /\ result = [kind |-> "none", value |-> <<>>]
    /\ skip = FALSE
    /\ failure = NoFailure
    /\ response = NoResponse
    /\ update_news_calls = <<>>
    /\ prompt = NoPrompt
    /\ order = <<>>
    /\ suggested = <<>>
    /\ headOutcome = <<>>
    /\ boundary = <<>>
    /\ fetched = <<>>
    /\ model_id = ConstructorModelId
    /\ requests = <<>>
    /\ body = NoBody
    /\ reply = NoReply
    /\ update_sources_calls = <<>>
    /\ runs \in [Runs -> {NewRun(m, SubSeq(SourceUrls, 1, MaxSources)) :
                              m \in {"stream", "batch"}}]

NextConcurrent ==
    \/ \E r \in Runs : RunCategorizesItem(r)
    \/ \E r \in Runs : RunStartsSummaries(r)

SpecConcurrent == InitConcurrent /\ [][NextConcurrent]_vars

-----------------------------------------------------------------------------
Init ==
    /\ mode \in {"stream", "batch", "suggest"}
    /\ caller \in IF mode = "batch" THEN {"none", "generate_news"} ELSE {"none"}
    /\ pc = IF mode = "stream" THEN "start"
            ELSE IF mode = "suggest" THEN "suggest"
            ELSE IF caller = "generate_news" THEN "request" ELSE "fetch"
    /\ sources \in IF mode = "suggest" THEN {<<>>}
                   ELSE {SubSeq(SourceUrls, 1, n) : n \in 0..MaxSources}
    /\ idx = 0
    /\ respLen = 0
    /\ aidx = 0
    /\ lastAsg = NoAssignment
    /\ before = <<>>
    /\ frAdded = 0
    /\ topics = <<>>
    /\ events = <<>>
    /\ atYield = FALSE
    /\ done = {}
    /\ k = 0
    /\ db_summaries = <<>>
    /\ persisted = <<>>
    /\ gathered = <<>>
    /\ result = [kind |-> "none", value |-> <<>>]
    /\ skip = FALSE
    /\ failure = NoFailure
    /\ response = NoResponse
    /\ update_news_calls = <<>>
    /\ prompt = NoPrompt
    /\ order = <<>>
    /\ suggested = <<>>
    /\ headOutcome = <<>>
    /\ runs = NoRuns
    /\ boundary = <<>>
    /\ fetched = <<>>
    /\ model_id = ConstructorModelId
    /\ requests = <<>>
    /\ body = NoBody
    /\ reply = NoReply
    /\ update_sources_calls = <<>>

\* The /generate-news handler up to the call of the batch function: 400 for
\* an empty sources list; evaluating the name provideNews_advanced raises
\* NameError when app.py does not bind it, which the handler's except clause
\* turns into a 500 response.
generate_news ==
    /\ caller = "generate_news" /\ pc = "request"
    /\ IF sources = <<>>
       THEN response' = ErrorResponse(400) /\ pc' = "responded"
       ELSE IF "provideNews_advanced" \notin ImportedFromAgent
       THEN response' = ErrorResponse(500) /\ pc' = "responded"
       ELSE response' = response /\ pc' = "fetch"
    /\ UNCHANGED <<mode, sources, idx, respLen, aidx, lastAsg, before, frAdded,
                   topics, events, atYield, done, k, db_summaries, persisted,
                   gathered, result, skip, failure, caller, update_news_calls>>
    /\ UNCHANGED <<prompt, order, suggested, headOutcome, runs, boundary, fetched>>
    /\ ClientUntouched /\ UpdateSourcesUntouched

\* yield sse_event("start", ...)
Start ==
    /\ mode = "stream" /\ pc = "start"
    /\ Yield(StartEvent)
    /\ pc' = "status1"
    /\ UNCHANGED <<mode, sources, idx, respLen, aidx, lastAsg, before, frAdded,
                   topics, done, k, db_summaries, persisted, gathered, result,
                   skip, failure, caller, response, update_news_calls>>
    /\ UNCHANGED <<prompt, order, suggested, headOutcome, runs, boundary, fetched>>
    /\ ClientUntouched /\ UpdateSourcesUntouched

\* persistent_memory = []; yield sse_event("status", "Categorizing sources...")
StatusCategorizing ==
    /\ mode = "stream" /\ pc = "status1"
    /\ Yield(StatusEvent)
    /\ pc' = "fetch"
    /\ UNCHANGED <<mode, sources, idx, respLen, aidx, lastAsg, before, frAdded,
                   topics, done, k, db_summaries, persisted, gathered, result,
                   skip, failure, caller, response, update_news_calls>>
    /\ UNCHANGED <<prompt, order, suggested, headOutcome, runs, boundary, fetched>>
    /\ ClientUntouched /\ UpdateSourcesUntouched

\* html_content = [... fetch_webpage_python(src) for src in sources]
FetchContent ==
    /\ pc = "fetch"
    /\ atYield' = FALSE
    /\ pc' = "classify"
    /\ UNCHANGED <<mode, sources, idx, respLen, aidx, lastAsg, before, frAdded,
                   topics, events, done, k, db_summaries, persisted, gathered,
                   result, skip, failure, caller, response, update_news_calls>>
    /\ UNCHANGED <<prompt, order, suggested, headOutcome, runs, boundary, fetched>>
    /\ ClientUntouched /\ UpdateSourcesUntouched

\* fetch_webpage_python raises for one of the sources
FetchContentFails ==
    /\ pc = "fetch"
    /\ sources # <<>>
    /\ failure' = Failure("fetch", 0)
    /\ Raise
    /\ UNCHANGED <<mode, sources, idx, respLen, aidx, lastAsg, before, frAdded,
                   topics, done, k, db_summaries, persisted, gathered,
                   skip, caller, update_news_calls>>
    /\ UNCHANGED <<prompt, order, suggested, headOutcome, runs, boundary, fetched>>
    /\ ClientUntouched /\ UpdateSourcesUntouched

\* Classify testing only the assignments of the response, not its skip flag
ClassifyIgnoresSkip ==
    /\ pc = "classify"
    /\ idx < Len(sources)
    /\ idx' = idx + 1
    /\ prompt' = create_categorization_prompt(topics, sources[idx + 1])
    /\ \E s \in BOOLEAN, n \in {0} \cup ResponseLengths :
          /\ skip' = s
          /\ IF n = 0
             THEN pc' = "classify" /\ respLen' = 0
             ELSE pc' = "fold" /\ respLen' = n
    /\ aidx' = 0 /\ lastAsg' = NoAssignment /\ before' = topics /\ frAdded' = 0
    /\ atYield' = FALSE
    /\ UNCHANGED <<mode, sources, topics, events, done, k, db_summaries,
                   persisted, gathered, result, failure, caller, response,
                   update_news_calls>>
    /\ UNCHANGED <<order, suggested, headOutcome, runs, boundary, fetched>>
    /\ ClientUntouched /\ UpdateSourcesUntouched

\* The next content item is classified; the response is skipped (skip set,
\* or assignments missing or empty) or its n assignments are to be folded.
\* The assignments themselves are drawn when the loop reaches them.
Classify ==
    /\ pc = "classify"
    /\ idx < Len(sources)
    /\ idx' = idx + 1
    /\ prompt' = create_categorization_prompt(topics, sources[idx + 1])
    /\ \E s \in BOOLEAN, n \in {0} \cup ResponseLengths :
          /\ skip' = s
          /\ IF s \/ n = 0
             THEN pc' = "classify" /\ respLen' = 0
             ELSE pc' = "fold" /\ respLen' = n
    /\ aidx' = 0 /\ lastAsg' = NoAssignment /\ before' = topics /\ frAdded' = 0
    /\ atYield' = FALSE
    /\ UNCHANGED <<mode, sources, topics, events, done, k, db_summaries,
                   persisted, gathered, result, failure, caller, response,
                   update_news_calls>>
    /\ UNCHANGED <<order, suggested, headOutcome, runs, boundary, fetched>>
    /\ ClientUntouched /\ UpdateSourcesUntouched

\* ClassifyFails catching the error and going on with the next content item
ClassifyFailsSkipsItem ==
    /\ pc = "classify"
    /\ idx < Len(sources)
    /\ idx' = idx + 1
    /\ prompt' = create_categorization_prompt(topics, sources[idx + 1])
    /\ respLen' = 0 /\ aidx' = 0 /\ lastAsg' = NoAssignment /\ before' = topics
    /\ frAdded' = 0 /\ skip' = FALSE
    /\ failure' = Failure("classify", idx + 1)
    /\ atYield' = FALSE
    /\ UNCHANGED <<mode, pc, sources, topics, events, done, k, db_summaries,
                   persisted, gathered, result, caller, response,
                   update_news_calls>>
    /\ UNCHANGED <<order, suggested, headOutcome, runs, boundary, fetched>>
    /\ ClientUntouched /\ UpdateSourcesUntouched

\* client.generateStructuredOutput raises RuntimeError
ClassifyFails ==
    /\ pc = "classify"
    /\ idx < Len(sources)
    /\ idx' = idx + 1
    /\ prompt' = create_categorization_prompt(topics, sources[idx + 1])
    /\ respLen' = 0 /\ aidx' = 0 /\ lastAsg' = NoAssignment /\ before' = topics
    /\ frAdded' = 0 /\ skip' = FALSE
    /\ failure' = Failure("classify", idx + 1)
    /\ Raise
    /\ UNCHANGED <<mode, sources, topics, done, k, db_summaries, persisted,
                   gathered, caller, update_news_calls>>
    /\ UNCHANGED <<order, suggested, headOutcome, runs, boundary, fetched>>
    /\ ClientUntouched /\ UpdateSourcesUntouched

AfterFold == IF aidx + 1 = respLen THEN "classify" ELSE "fold"

\* batch: one iteration of "for assignment in categorization_response[...]"
BatchFoldAssignment ==
    /\ mode = "batch" /\ pc = "fold"
    /\ \E asg \in AssignmentChoices(sources[idx], respLen) :
          /\ lastAsg' = asg
          /\ before' = topics
          /\ topics' = BatchFold(topics, sources[idx], asg)
          /\ frAdded' = ReadingsAdded(topics, topics', sources[idx], asg)
    /\ aidx' = aidx + 1
    /\ pc' = AfterFold
    /\ UNCHANGED <<mode, sources, idx, respLen, events, atYield,
                   done, k, db_summaries, persisted, gathered, result,
                   skip, failure, caller, response, update_news_calls>>
    /\ UNCHANGED <<prompt, order, suggested, headOutcome, runs, boundary, fetched>>
    /\ ClientUntouched /\ UpdateSourcesUntouched

\* streaming: one iteration of the assignment loop; a created topic is
\* streamed at once
StreamFoldAssignment ==
    /\ mode = "stream" /\ pc = "fold"
    /\ \E asg \in AssignmentChoices(sources[idx], respLen) :
          /\ lastAsg' = asg
          /\ before' = topics
          /\ topics' = StreamFold(topics, sources[idx], asg)
          /\ frAdded' = ReadingsAdded(topics, topics', sources[idx], asg)
    /\ IF Len(topics') > Len(topics)
       THEN Yield(TopicEvent(topics'[Len(topics')].name, Len(topics')))
       ELSE events' = events /\ atYield' = FALSE
    /\ aidx' = aidx + 1
    /\ pc' = AfterFold
    /\ UNCHANGED <<mode, sources, idx, respLen,
                   done, k, db_summaries, persisted, gathered, result,
                   skip, failure, caller, response, update_news_calls>>
    /\ UNCHANGED <<prompt, order, suggested, headOutcome, runs, boundary, fetched>>
    /\ ClientUntouched /\ UpdateSourcesUntouched

\* AfterNoTopics without the return statement
AfterNoTopicsFallsThrough == "summarize"

\* where the streaming generator goes after yielding "done" for an empty
\* persistent_memory: it returns
AfterNoTopics == "finished"

\* NoTopics without the test: the run goes on to the summarization stage
\* whatever the store holds
NoTopicsIgnored(mem) == FALSE

\* streaming: if not persistent_memory
NoTopics(mem) == mem = <<>>

\* StreamEndCategorization without the "Generating summaries..." status event
StreamEndCategorizationNoStatus ==
    /\ mode = "stream" /\ pc = "classify"
    /\ idx = Len(sources)
    /\ IF NoTopics(topics)
       THEN /\ Yield(DoneEvent)
            /\ pc' = AfterNoTopics
       ELSE /\ events' = events /\ atYield' = FALSE
            /\ pc' = "summarize"
    /\ db_summaries' = [i \in 1..Len(topics) |-> EmptyString]
    /\ boundary' = topics
    /\ fetched' = [i \in 1..Len(topics) |-> NotFetched]
    /\ respLen' = 0 /\ aidx' = 0 /\ lastAsg' = NoAssignment /\ before' = <<>>
    /\ frAdded' = 0 /\ skip' = FALSE
    /\ UNCHANGED <<mode, sources, idx, topics, done, k, persisted,
                   gathered, result, failure, caller, response,
                   update_news_calls>>
    /\ UNCHANGED <<prompt, order, suggested, headOutcome, runs>>
    /\ ClientUntouched /\ UpdateSourcesUntouched

\* streaming, after the last content item: "No topics discovered." and
\* return, or the second status event and the creation of one task per topic
\* and of the results buffer
StreamEndCategorization ==
    /\ mode = "stream" /\ pc = "classify"
    /\ idx = Len(sources)
    /\ IF NoTopics(topics)
       THEN /\ Yield(DoneEvent)
            /\ pc' = AfterNoTopics
       ELSE /\ Yield(StatusEvent)
            /\ pc' = "summarize"
    /\ db_summaries' = [i \in 1..Len(topics) |-> EmptyString]
    /\ boundary' = topics
    /\ fetched' = [i \in 1..Len(topics) |-> NotFetched]
    /\ respLen' = 0 /\ aidx' = 0 /\ lastAsg' = NoAssignment /\ before' = <<>>
    /\ frAdded' = 0 /\ skip' = FALSE
    /\ UNCHANGED <<mode, sources, idx, topics, done, k, persisted,
                   gathered, result, failure, caller, response,
                   update_news_calls>>
    /\ UNCHANGED <<prompt, order, suggested, headOutcome, runs>>
    /\ ClientUntouched /\ UpdateSourcesUntouched

\* StreamTaskCompletes awaiting the tasks in the order of their creation: the
\* summary streamed is the one of the topic at position idx
StreamTaskCompletesInTopicOrder(i) ==
    /\ mode = "stream" /\ pc = "summarize"
    /\ i \in DOMAIN topics /\ i \notin done
    /\ done' = done \cup {i}
    /\ fetched' = [fetched EXCEPT ![i] = SourcesFetched(topics[i])]
    /\ UNCHANGED boundary
    /\ order' = Append(order, i)
    /\ db_summaries' = [db_summaries EXCEPT ![k + 1] = SummaryOf(k + 1)]
    /\ Yield(SummaryEvent(k, topics[k + 1].name, SummaryOf(k + 1)))
    /\ k' = k + 1
    /\ UNCHANGED <<mode, pc, sources, idx, respLen, aidx, lastAsg, before,
                   frAdded, topics, persisted, gathered, result,
                   skip, failure, caller, response, update_news_calls>>
    /\ UNCHANGED <<prompt, suggested, headOutcome, runs>>
    /\ ClientUntouched /\ UpdateSourcesUntouched

\* One turn of "for idx, coro in enumerate(asyncio.as_completed(tasks))":
\* the task created for the topic at position i is the next one to complete,
\* its result goes to db_summaries[idx] and is streamed with idx and
\* persistent_memory[idx].name.  k is idx.
StreamTaskCompletes(i) ==
    /\ mode = "stream" /\ pc = "summarize"
    /\ i \in DOMAIN topics /\ i \notin done
    /\ done' = done \cup {i}
    /\ fetched' = [fetched EXCEPT ![i] = SourcesFetched(topics[i])]
    /\ UNCHANGED boundary
    /\ order' = Append(order, i)
    /\ db_summaries' = [db_summaries EXCEPT ![k + 1] = SummaryOf(i)]
    /\ Yield(SummaryEvent(k, topics[k + 1].name, SummaryOf(i)))
    /\ k' = k + 1
    /\ UNCHANGED <<mode, pc, sources, idx, respLen, aidx, lastAsg, before,
                   frAdded, topics, persisted, gathered, result,
                   skip, failure, caller, response, update_news_calls>>
    /\ UNCHANGED <<prompt, suggested, headOutcome, runs>>
    /\ ClientUntouched /\ UpdateSourcesUntouched

\* StreamTaskFails leaving the failed task's slot empty and going on with the
\* next completion
StreamTaskFailsContinues(i) ==
    /\ mode = "stream" /\ pc = "summarize"
    /\ i \in DOMAIN topics /\ i \notin done
    /\ done' = done \cup {i}
    /\ k' = k + 1
    /\ failure' = Failure("summarize", idx)
    /\ atYield' = FALSE
    /\ UNCHANGED <<mode, pc, sources, idx, respLen, aidx, lastAsg, before,
                   frAdded, topics, events, db_summaries, persisted, gathered,
                   result, skip, caller, response, update_news_calls>>
    /\ UNCHANGED <<prompt, order, suggested, headOutcome, runs, boundary, fetched>>
    /\ ClientUntouched /\ UpdateSourcesUntouched

\* The next task to complete raised: run_until_complete re-raises it.
StreamTaskFails(i) ==
    /\ mode = "stream" /\ pc = "summarize"
    /\ i \in DOMAIN topics /\ i \notin done
    /\ failure' = Failure("summarize", idx)
    /\ RaiseInStream
    /\ UNCHANGED <<mode, sources, idx, respLen, aidx, lastAsg, before, frAdded,
                   topics, done, k, db_summaries, persisted, gathered, result,
                   skip, caller, response, update_news_calls>>
    /\ UNCHANGED <<prompt, order, suggested, headOutcome, runs, boundary, fetched>>
    /\ ClientUntouched /\ UpdateSourcesUntouched

\* PersistAndDone with the db_updater call inside the as_completed loop
PersistAndDoneInLoop ==
    /\ mode = "stream" /\ pc = "summarize"
    /\ k >= 1
    /\ persisted' = Append(persisted, db_summaries)
    /\ Yield(DoneEvent)
    /\ pc' = "finished"
    /\ UNCHANGED <<mode, sources, idx, respLen, aidx, lastAsg, before, frAdded,
                   topics, done, k, db_summaries, gathered, result,
                   skip, failure, caller, response, update_news_calls>>
    /\ UNCHANGED <<prompt, order, suggested, headOutcome, runs, boundary, fetched>>
    /\ ClientUntouched /\ UpdateSourcesUntouched

\* db_updater(db_summaries); yield sse_event("done", ...)
PersistAndDone ==
    /\ mode = "stream" /\ pc = "summarize"
    /\ k = Len(topics)
    /\ persisted' = Append(persisted, db_summaries)
    /\ Yield(DoneEvent)
    /\ pc' = "finished"
    /\ UNCHANGED <<mode, sources, idx, respLen, aidx, lastAsg, before, frAdded,
                   topics, done, k, db_summaries, gathered, result,
                   skip, failure, caller, response, update_news_calls>>
    /\ UNCHANGED <<prompt, order, suggested, headOutcome, runs, boundary, fetched>>
    /\ ClientUntouched /\ UpdateSourcesUntouched

\* db_updater is called and raises
PersistFails ==
    /\ mode = "stream" /\ pc = "summarize"
    /\ k = Len(topics)
    /\ persisted' = Append(persisted, db_summaries)
    /\ failure' = Failure("persist", idx)
    /\ RaiseInStream
    /\ UNCHANGED <<mode, sources, idx, respLen, aidx, lastAsg, before, frAdded,
                   topics, done, k, db_summaries, gathered, result,
                   skip, caller, response, update_news_calls>>
    /\ UNCHANGED <<prompt, order, suggested, headOutcome, runs, boundary, fetched>>
    /\ ClientUntouched /\ UpdateSourcesUntouched

\* The consumer closes the generator while it is suspended at a yield:
\* GeneratorExit is no Exception, the except clause does not run.
Close ==
    /\ mode = "stream" /\ atYield
    /\ pc \notin {"finished", "failed", "closed"}
    /\ pc' = "closed"
    /\ atYield' = FALSE
    /\ UNCHANGED <<mode, sources, idx, respLen, aidx, lastAsg, before, frAdded,
                   topics, events, done, k, db_summaries, persisted, gathered,
                   result, skip, failure, caller, response, update_news_calls>>
    /\ UNCHANGED <<prompt, order, suggested, headOutcome, runs, boundary, fetched>>
    /\ ClientUntouched /\ UpdateSourcesUntouched

\* BatchEndCategorization leaving the loop after any content item
BatchEndCategorizationEarly ==
    /\ mode = "batch" /\ pc = "classify"
    /\ idx >= 1
    /\ IF topics = <<>>
       THEN Return(<<>>)
       ELSE /\ pc' = "summarize"
            /\ UNCHANGED <<result, response, update_news_calls>>
    /\ gathered' = [i \in 1..Len(topics) |-> EmptyString]
    /\ boundary' = topics
    /\ fetched' = [i \in 1..Len(topics) |-> NotFetched]
    /\ respLen' = 0 /\ aidx' = 0 /\ lastAsg' = NoAssignment /\ before' = <<>>
    /\ frAdded' = 0 /\ skip' = FALSE
    /\ UNCHANGED <<mode, sources, idx, topics, events, atYield, done,
                   k, db_summaries, persisted, failure, caller>>
    /\ UNCHANGED <<prompt, order, suggested, headOutcome, runs>>
    /\ ClientUntouched /\ UpdateSourcesUntouched

\* batch, after the last content item: return [] when persistent_memory is
\* empty, else one coroutine per topic handed to asyncio.gather
BatchEndCategorization ==
    /\ mode = "batch" /\ pc = "classify"
    /\ idx = Len(sources)
    /\ IF topics = <<>>
       THEN Return(<<>>)
       ELSE /\ pc' = "summarize"
            /\ UNCHANGED <<result, response, update_news_calls>>
    /\ gathered' = [i \in 1..Len(topics) |-> EmptyString]
    /\ boundary' = topics
    /\ fetched' = [i \in 1..Len(topics) |-> NotFetched]
    /\ respLen' = 0 /\ aidx' = 0 /\ lastAsg' = NoAssignment /\ before' = <<>>
    /\ frAdded' = 0 /\ skip' = FALSE
    /\ UNCHANGED <<mode, sources, idx, topics, events, atYield, done,
                   k, db_summaries, persisted, failure, caller>>
    /\ UNCHANGED <<prompt, order, suggested, headOutcome, runs>>
    /\ ClientUntouched /\ UpdateSourcesUntouched

\* BatchTaskCompletes keeping the result at the rank of the completion
BatchTaskCompletesByRank(i) ==
    /\ mode = "batch" /\ pc = "summarize"
    /\ i \in DOMAIN topics /\ i \notin done
    /\ done' = done \cup {i}
    /\ fetched' = [fetched EXCEPT ![i] = SourcesFetched(topics[i])]
    /\ UNCHANGED boundary
    /\ gathered' = [gathered EXCEPT ![Cardinality(done) + 1] = SummaryOf(i)]
    /\ UNCHANGED <<mode, pc, sources, idx, respLen, aidx, lastAsg, before,
                   frAdded, topics, events, atYield, k, db_summaries, persisted,
                   result, skip, failure, caller, response, update_news_calls>>
    /\ UNCHANGED <<prompt, order, suggested, headOutcome, runs>>
    /\ ClientUntouched /\ UpdateSourcesUntouched

\* a gathered task completes; gather keeps its result at the task's position
BatchTaskCompletes(i) ==
    /\ mode = "batch" /\ pc = "summarize"
    /\ i \in DOMAIN topics /\ i \notin done
    /\ done' = done \cup {i}
    /\ fetched' = [fetched EXCEPT ![i] = SourcesFetched(topics[i])]
    /\ UNCHANGED boundary
    /\ gathered' = [gathered EXCEPT ![i] = SummaryOf(i)]
    /\ UNCHANGED <<mode, pc, sources, idx, respLen, aidx, lastAsg, before,
                   frAdded, topics, events, atYield, k, db_summaries, persisted,
                   result, skip, failure, caller, response, update_news_calls>>
    /\ UNCHANGED <<prompt, order, suggested, headOutcome, runs>>
    /\ ClientUntouched /\ UpdateSourcesUntouched

\* a gathered task raises: gather propagates the exception
BatchTaskFails(i) ==
    /\ mode = "batch" /\ pc = "summarize"
    /\ i \in DOMAIN topics /\ i \notin done
    /\ failure' = Failure("summarize", idx)
    /\ RaiseInBatch
    /\ UNCHANGED <<mode, sources, idx, respLen, aidx, lastAsg, before, frAdded,
                   topics, done, k, db_summaries, persisted, gathered,
                   skip, caller, update_news_calls>>
    /\ UNCHANGED <<prompt, order, suggested, headOutcome, runs, boundary, fetched>>
    /\ ClientUntouched /\ UpdateSourcesUntouched

\* news_summary_response_items = await asyncio.gather(*summary_tasks); return
BatchReturn ==
    /\ mode = "batch" /\ pc = "summarize"
    /\ done = DOMAIN topics
    /\ Return(gathered)
    /\ UNCHANGED <<mode, sources, idx, respLen, aidx, lastAsg, before, frAdded,
                   topics, events, atYield, done, k, db_summaries, persisted,
                   gathered, skip, failure, caller>>
    /\ UNCHANGED <<prompt, order, suggested, headOutcome, runs, boundary, fetched>>
    /\ ClientUntouched /\ UpdateSourcesUntouched

\* what the pipeline's variables are left at by suggestNewsSources
PipelineUntouched ==
    UNCHANGED <<mode, sources, idx, respLen, aidx, lastAsg, before, frAdded,
                topics, events, atYield, done, k, db_summaries, persisted,
                gathered, skip, caller, response, update_news_calls, prompt,
                order, runs, boundary, fetched>>

\* response = client.generateStructuredOutput(prompt, schema=sources_schema,
\* online=True); sources = response.get("sources", []); one probe coroutine
\* per source is handed to asyncio.gather
SuggestRequest ==
    /\ mode = "suggest" /\ pc = "suggest"
    /\ \E srcs \in SuggestedLists :
          /\ suggested' = srcs
          /\ headOutcome' = [i \in DOMAIN srcs |-> NoOutcome]
    /\ pc' = "validate"
    /\ UNCHANGED <<result, failure>>
    /\ PipelineUntouched
    /\ ClientUntouched /\ UpdateSourcesUntouched

\* client.generateStructuredOutput raises: suggestNewsSources has no except
\* clause
SuggestRequestFails ==
    /\ mode = "suggest" /\ pc = "suggest"
    /\ failure' = Failure("suggest", 0)
    /\ result' = [kind |-> "raised", value |-> <<>>]
    /\ pc' = "failed"
    /\ UNCHANGED <<suggested, headOutcome>>
    /\ PipelineUntouched
    /\ ClientUntouched /\ UpdateSourcesUntouched

\* The probe of the source at position i runs to its end.  A probe that
\* raises makes asyncio.gather, and with it suggestNewsSources, raise.
ProbeCompletes(i) ==
    /\ mode = "suggest" /\ pc = "validate"
    /\ i \in DOMAIN suggested /\ headOutcome[i] = NoOutcome
    /\ \E outcome \in HeadOutcomes(suggested[i].url) :
          /\ headOutcome' = [headOutcome EXCEPT ![i] = outcome]
          /\ IF isValidUrlAwaited(outcome).kind = "raised"
             THEN /\ failure' = Failure("probe", i)
                  /\ result' = [kind |-> "raised", value |-> <<>>]
                  /\ pc' = "failed"
             ELSE UNCHANGED <<failure, result, pc>>
    /\ UNCHANGED suggested
    /\ PipelineUntouched
    /\ ClientUntouched /\ UpdateSourcesUntouched

\* validation_results = await asyncio.gather(*validation_tasks); the zip
\* filter; return validSources
SuggestReturn ==
    /\ mode = "suggest" /\ pc = "validate"
    /\ \A i \in DOMAIN suggested : headOutcome[i] # NoOutcome
    /\ result' = [kind |-> "returned",
                  value |-> ValidSources(suggested,
                              [i \in DOMAIN suggested |->
                                  isValidUrlAwaited(headOutcome[i]).value])]
    /\ pc' = "finished"
    /\ UNCHANGED <<failure, suggested, headOutcome>>
    /\ PipelineUntouched
    /\ ClientUntouched /\ UpdateSourcesUntouched

Next ==
    \/ generate_news
    \/ Start
    \/ StatusCategorizing
    \/ FetchContent
    \/ FetchContentFails
    \/ Classify
    \/ ClassifyFails
    \/ BatchFoldAssignment
    \/ StreamFoldAssignment
    \/ StreamEndCategorization
    \/ \E i \in 1..Len(topics) : StreamTaskCompletes(i)
    \/ \E i \in 1..Len(topics) : StreamTaskFails(i)
    \/ PersistAndDone
    \/ PersistFails
    \/ Close
    \/ BatchEndCategorization
    \/ \E i \in 1..Len(topics) : BatchTaskCompletes(i)
    \/ \E i \in 1..Len(topics) : BatchTaskFails(i)
    \/ BatchReturn
    \/ SuggestRequest
    \/ SuggestRequestFails
    \/ \E i \in 1..Len(suggested) : ProbeCompletes(i)
    \/ SuggestReturn

Spec == Init /\ [][Next]_vars

\* A streaming run whose consumer keeps reading (the generator is never
\* closed) and whose external calls each return or fail: the generator
\* takes its next step whenever it has one.
InitStream == Init /\ mode = "stream"

NextStream ==
    \/ Start
    \/ StatusCategorizing
    \/ FetchContent
    \/ FetchContentFails
    \/ Classify
    \/ ClassifyFails
    \/ StreamFoldAssignment
    \/ StreamEndCategorization
    \/ \E i \in 1..Len(topics) : StreamTaskCompletes(i)
    \/ \E i \in 1..Len(topics) : StreamTaskFails(i)
    \/ PersistAndDone
    \/ PersistFails

SpecStreamFair == InitStream /\ [][NextStream]_vars /\ WF_vars(NextStream)

-----------------------------------------------------------------------------
(* One OpenRouterClient serving a sequence of calls *)

\* what a step outside the pipeline and suggestNewsSources leaves alone
NoPipelineStep ==
    /\ UNCHANGED <<pc, result, failure, suggested, headOutcome>>
    /\ PipelineUntouched

\* _make_request: the online flag is applied to self.model_id, the payload
\* names self.model_id, and requests.post returns or raises
MakeRequest(method, online) ==
    /\ mode = "client"
    /\ Len(requests) < MaxCalls
    /\ model_id' = ModelIdAfterFlag(model_id, online)
    /\ \E outcome \in {"returned", "raised"} :
          requests' = Append(requests,
              [method |-> method, online |-> online, model |-> model_id',
               outcome |-> outcome])

\* generateText(prompt, system_message, online)
generateText ==
    /\ \E online \in BOOLEAN : MakeRequest("generateText", online)
    /\ NoPipelineStep /\ UpdateSourcesUntouched

\* generateStructuredOutput(prompt, schema, system_message, online)
generateStructuredOutput ==
    /\ \E online \in BOOLEAN : MakeRequest("generateStructuredOutput", online)
    /\ NoPipelineStep /\ UpdateSourcesUntouched

InitClient ==
    /\ mode = "client"
    /\ pc = "client"
    /\ IdlePipeline
    /\ model_id = ConstructorModelId
    /\ requests = <<>>
    /\ body = NoBody
    /\ reply = NoReply
    /\ update_sources_calls = <<>>

NextClient ==
    \/ generateText
    \/ generateStructuredOutput

SpecClient == InitClient /\ [][NextClient]_vars

-----------------------------------------------------------------------------
(* One request to /update-sources *)

\* the handler: 400 for a sources value that is no list and for the first
\* source that fails a test; else the filtered sources without the repeated
\* URLs go to update_sources, whose transaction commits or raises
update_sources_sync ==
    /\ mode = "update_sources" /\ pc = "request"
    /\ LET submitted == SourcesOf(body)
       IN  IF submitted.type # "list"
           THEN /\ reply' = ErrorReply(400)
                /\ UNCHANGED update_sources_calls
           ELSE IF \E i \in DOMAIN submitted.items :
                        SourceRejected(submitted.items[i])
           THEN /\ reply' = ErrorReply(400)
                /\ UNCHANGED update_sources_calls
           ELSE LET filtered_sources ==
                        UniqueSources([i \in DOMAIN submitted.items |->
                                          FilteredSource(submitted.items[i])], {})
                IN  /\ update_sources_calls' =
                            Append(update_sources_calls, filtered_sources)
                    /\ \E committed \in BOOLEAN :
                          reply' = IF committed THEN OkReply(filtered_sources)
                                   ELSE ErrorReply(500)
    /\ pc' = "responded"
    /\ UNCHANGED body
    /\ UNCHANGED <<result, failure, suggested, headOutcome>>
    /\ PipelineUntouched
    /\ ClientUntouched

InitUpdateSources ==
    /\ mode = "update_sources"
    /\ pc = "request"
    /\ IdlePipeline
    /\ model_id = ConstructorModelId
    /\ requests = <<>>
    /\ body \in Bodies
    /\ reply = NoReply
    /\ update_sources_calls = <<>>

NextUpdateSources == update_sources_sync

SpecUpdateSources == InitUpdateSources /\ [][NextUpdateSources]_vars

-----------------------------------------------------------------------------
(* Observations used by the properties *)

LastEvent == events[Len(events)]

IsTerminal(e) == e.type \in {"done", "error"}

EndedWith(type) == events # <<>> /\ LastEvent.type = type

\* an assignment of the current item was folded: lastAsg is that assignment,
\* before the store it met and topics the store it left
Folded == aidx >= 1

TopicEvents == SelectSeq(events, LAMBDA e : e.type = "topic")

CurrentUrl == sources[idx]

-----------------------------------------------------------------------------
(* Properties *)

\* C1: every summary event carries the index and the name of the topic whose
\* summarization task produced the summary it contains, whatever the order in
\* which the tasks complete.
C1_SummaryEventOfItsTopic ==
    \A e \in DOMAIN events :
        events[e].type = "summary" =>
            /\ events[e].index + 1 \in DOMAIN topics
            /\ events[e].topic = topics[events[e].index + 1].name
            /\ events[e].summary = SummaryOf(events[e].index + 1)

\* C2: the list handed to db_updater is ordered by topic position: its
\* element at position i is the summary produced for the topic at position i.
C2_PersistedInTopicOrder ==
    \A c \in DOMAIN persisted :
        /\ Len(persisted[c]) = Len(topics)
        /\ \A i \in DOMAIN persisted[c] : persisted[c][i] = SummaryOf(i)

\* C3: no topic contains the same source URL twice, in the batch and in the
\* streaming categorization.
C3_NoDuplicateSource ==
    \A t \in DOMAIN topics : NoDuplicates(topics[t].sources)

\* C4: a furtherReading URL for which the reachability probe answers false is
\* never among a topic's sources (the sources of the run are reachable).
C4_UnreachableReadingDropped ==
    \A t \in DOMAIN topics :
        \A j \in DOMAIN topics[t].sources :
            Contains(sources, topics[t].sources[j]) \/ isValidUrl(topics[t].sources[j])

NamesUniqueIgnoringCase ==
    \A i, j \in DOMAIN topics :
        i # j => Lower(topics[i].name) # Lower(topics[j].name)

\* an assignment whose name matches an existing topic ignoring case creates
\* no topic, and the topic holds the item's URL and the reachable
\* furtherReadings afterwards
MergesIntoMatch ==
    LET t == FindTopic(before, lastAsg.topicName)
    IN  Folded /\ t # 0 =>
            /\ Len(topics) = Len(before)
            /\ Contains(topics[t].sources, CurrentUrl)
            /\ \A j \in DOMAIN lastAsg.furtherReadings :
                  isValidUrl(lastAsg.furtherReadings[j])
                      => Contains(topics[t].sources, lastAsg.furtherReadings[j])

\* the topics that existed keep their names, and a created topic has the
\* name of the assignment that created it
FirstNameKept ==
    Folded =>
        /\ Len(topics) \in {Len(before), Len(before) + 1}
        /\ \A i \in DOMAIN before : topics[i].name = before[i].name
        /\ Len(topics) > Len(before) => topics[Len(topics)].name = lastAsg.topicName

C6_BlankNameNoChange ==
    (Folded /\ (lastAsg.topicName = <<>> \/ Strip(lastAsg.topicName) = <<>>)) =>
        /\ topics = before
        /\ mode = "stream" => Len(TopicEvents) = Len(before)

\* C7: for one content item at most 5 assignments are folded, and one
\* assignment adds at most 3 furtherReading URLs to a topic.
C7_LimitsEnforcedAtMerge ==
    /\ aidx <= maxItemsAssignments
    /\ frAdded <= maxItemsFurtherReadings

\* One step of the recogniser of
\*     start, status*, topic*, status, summary*, (done | error)
\* and, with errorAfterTopic, of the same grammar in which an error may also
\* end the run during the topic events.
GrammarNext(q, type, errorAfterTopic) ==
    CASE q = "begin" /\ type = "start" -> "started"
      [] q = "started" /\ type = "status" -> "status"
      [] q = "started" /\ type = "topic" -> "topics"
      [] q = "status" /\ type = "status" -> "status"
      [] q = "status" /\ type = "topic" -> "topics"
      [] q = "status" /\ type = "summary" -> "summaries"
      [] q = "status" /\ type \in {"done", "error"} -> "end"
      [] q = "topics" /\ type = "topic" -> "topics"
      [] q = "topics" /\ type = "status" -> "summaries"
      [] q = "topics" /\ type = "error" /\ errorAfterTopic -> "end"
      [] q = "summaries" /\ type = "summary" -> "summaries"
      [] q = "summaries" /\ type \in {"done", "error"} -> "end"
      [] OTHER -> "reject"

RECURSIVE GrammarRun(_, _, _)
GrammarRun(q, evs, errorAfterTopic) ==
    IF evs = <<>> THEN q
    ELSE GrammarRun(GrammarNext(q, Head(evs).type, errorAfterTopic), Tail(evs),
                    errorAfterTopic)

RunEnded == mode = "stream" /\ pc \in {"finished", "failed"}

\* C8 as stated: the events of a streaming run are at every moment a prefix
\* of a word of start, status*, topic*, status, summary*, (done | error), and
\* a whole word once the run has ended.
C8_GrammarAsStated ==
    /\ GrammarRun("begin", events, FALSE) # "reject"
    /\ RunEnded => GrammarRun("begin", events, FALSE) = "end"

\* C8 amended: the same grammar, except that an error event may directly
\* follow a topic event.
C8_GrammarWithErrorAfterTopic ==
    /\ GrammarRun("begin", events, TRUE) # "reject"
    /\ RunEnded => GrammarRun("begin", events, TRUE) = "end"

C8_Witness ==
    /\ RunEnded
    /\ \E i \in DOMAIN events :
          /\ i > 1
          /\ events[i].type = "error"
          /\ events[i - 1].type = "topic"

\* C9: only the last event of a run is a terminal event ('done' or 'error'):
\* there is at most one and nothing follows it, also when db_updater raises
\* after all summaries were streamed.
C9_OneTerminalEventLast ==
    /\ \A i \in DOMAIN events : IsTerminal(events[i]) => i = Len(events)
    /\ (events # <<>> /\ IsTerminal(LastEvent)) => pc \in {"finished", "failed"}

C9_Witness ==
    /\ EndedWith("error")
    /\ Len(persisted) = 1
    /\ Len(topics) >= 2
    /\ \A i \in DOMAIN topics : events[Len(events) - i].type = "summary"

\* C10: a streaming run that ends with 'done' has called db_updater exactly
\* once, with one summary per topic, also when no topic was discovered.
C10_PersistedOncePerDoneRun ==
    (mode = "stream" /\ EndedWith("done")) =>
        /\ Len(persisted) = 1
        /\ Len(persisted[1]) = Len(topics)

SummaryEvents == SelectSeq(events, LAMBDA e : e.type = "summary")

TerminalEvents == SelectSeq(events, LAMBDA e : IsTerminal(e))

\* C11: a classifier failure on a content item ends the run: the item is not
\* classified again and no later item is classified, no summarization task is
\* created or completed, no summary event is emitted and nothing is
\* persisted; the stream ends with an 'error' event and the batch function
\* raises.
C11_ClassifierFailureIsFatal ==
    failure.stage = "classify" =>
        /\ pc = "failed"
        /\ idx = failure.item
        /\ done = {} /\ k = 0 /\ db_summaries = <<>> /\ gathered = <<>>
        /\ SummaryEvents = <<>>
        /\ persisted = <<>> /\ update_news_calls = <<>>
        /\ IF mode = "stream"
           THEN EndedWith("error") /\ Len(TerminalEvents) = 1
           ELSE result.kind = "raised"

C11_Witness ==
    /\ mode = "stream"
    /\ failure.stage = "classify"
    /\ failure.item = 1
    /\ Len(sources) = 2
    /\ EndedWith("error")

\* C12: when a summarization task fails in a streaming run, the run ends
\* with one 'error' event, which is its only terminal event and directly
\* follows the summary events emitted before the failure; no summary and no
\* 'done' follows and db_updater is not called.
C12_TaskFailureEndsStream ==
    (mode = "stream" /\ failure.stage = "summarize") =>
        /\ pc = "failed"
        /\ EndedWith("error")
        /\ Len(TerminalEvents) = 1
        /\ persisted = <<>>
        /\ k = failure.summaries
        /\ Len(SummaryEvents) = failure.summaries
        /\ \A j \in 1..failure.summaries :
              /\ events[Len(events) - 1 - failure.summaries + j].type = "summary"
              /\ events[Len(events) - 1 - failure.summaries + j].index = j - 1

C12_Witness ==
    /\ mode = "stream"
    /\ failure.stage = "summarize"
    /\ failure.summaries >= 1
    /\ Len(topics) > failure.summaries
    /\ EndedWith("error")

\* C13: a streaming run whose consumer closed the generator has an 'error'
\* event as its last event and has not called db_updater.
C13_CancelledRunEmitsError ==
    (mode = "stream" /\ pc = "closed") =>
        /\ EndedWith("error")
        /\ persisted = <<>>

\* the store the fold of lastAsg would have left had the assignment said
\* isNew = true
FoldedAsNew ==
    IF mode = "batch"
    THEN BatchFold(before, CurrentUrl, [lastAsg EXCEPT !.isNew = TRUE])
    ELSE StreamFold(before, CurrentUrl, [lastAsg EXCEPT !.isNew = TRUE])

\* C14: an assignment with isNew = false and a non-blank topicName that
\* matches no existing topic ignoring case is not dropped: a topic of that
\* name, holding the item's URL, is appended to the unchanged store, the store
\* is the one isNew = true would have given, and in streaming the 'topic'
\* event of the new topic is emitted.
C14_UnknownExistingTopicCreated ==
    (/\ Folded
     /\ ~lastAsg.isNew
     /\ Strip(lastAsg.topicName) # <<>>
     /\ FindTopic(before, lastAsg.topicName) = 0) =>
        /\ Len(topics) = Len(before) + 1
        /\ SubSeq(topics, 1, Len(before)) = before
        /\ topics[Len(topics)].name = lastAsg.topicName
        /\ Head(topics[Len(topics)].sources) = CurrentUrl
        /\ topics = FoldedAsNew
        /\ mode = "stream" =>
              LastEvent = TopicEvent(lastAsg.topicName, Len(before) + 1)

C14_Witness ==
    /\ mode = "stream"
    /\ Folded
    /\ ~lastAsg.isNew
    /\ lastAsg.topicName = AI
    /\ Len(before) = 1 /\ before[1].name = Tech
    /\ Len(topics) = 2
    /\ LastEvent = TopicEvent(AI, 2)

\* position of the first occurrence of x in seq
FirstPos(seq, x) ==
    CHOOSE i \in DOMAIN seq : seq[i] = x /\ \A j \in 1..(i - 1) : seq[j] # x

\* new is old followed by the URLs of cand that old lacks, each once, in the
\* order in which cand first names them
AppendedIfAbsent(old, new, cand) ==
    /\ Len(new) >= Len(old)
    /\ SubSeq(new, 1, Len(old)) = old
    /\ LET add == SubSeq(new, Len(old) + 1, Len(new))
       IN  /\ {add[i] : i \in DOMAIN add}
                = {cand[i] : i \in DOMAIN cand} \ {old[i] : i \in DOMAIN old}
           /\ NoDuplicates(add)
           /\ \A i, j \in DOMAIN add :
                 i < j => FirstPos(cand, add[i]) < FirstPos(cand, add[j])

C16_TopicEventPerCreation ==
    mode = "stream" =>
        /\ TopicEvents =
              [i \in 1..Len(topics) |->
                  [type |-> "topic", topicName |-> topics[i].name, totalTopics |-> i]]
        /\ (Folded /\ FindTopic(before, lastAsg.topicName) # 0) =>
              Len(TopicEvents) = Len(before)

C16_Witness ==
    /\ mode = "stream"
    /\ Len(TopicEvents) = 2
    /\ TopicEvents[1].totalTopics = 1 /\ TopicEvents[2].totalTopics = 2
    /\ Folded
    /\ FindTopic(before, lastAsg.topicName) # 0

\* the classification of the current item came back with skip set or with
\* missing or empty assignments
Skipped == pc \in {"classify", "fold"} /\ idx >= 1 /\ (skip \/ respLen = 0)

\* C17: a content item whose classification has skip = true, or missing or
\* empty assignments, folds no assignment: the topic store is as it was before
\* the item, no 'topic' event was emitted for it, nothing was raised and no
\* terminal event emitted, and the loop goes on to classify the next item.
C17_SkippedItemChangesNothing ==
    Skipped =>
        /\ pc = "classify" /\ aidx = 0
        /\ topics = before
        /\ failure.stage = "none" /\ result.kind = "none"
        /\ mode = "stream" =>
              Len(TopicEvents) = Len(before) /\ TerminalEvents = <<>>
        /\ idx < Len(sources) => ENABLED Classify

C17_Witness ==
    /\ mode = "stream"
    /\ Skipped /\ skip
    /\ idx = 2
    /\ topics # <<>>
    /\ topics = before

\* the summarization stage has begun: the tasks or a results buffer exist, a
\* task has completed or a summary was streamed
SummarizationBegun ==
    \/ pc = "summarize"
    \/ done # {}
    \/ db_summaries # <<>>
    \/ gathered # <<>>
    \/ SummaryEvents # <<>>

\* C18: the stages do not overlap: summarization has begun only when every
\* content item has been classified and folded and every 'topic' event has
\* been emitted, and no 'topic' event follows a 'summary' event.
C18_StagesDoNotOverlap ==
    /\ SummarizationBegun =>
          /\ idx = Len(sources)
          /\ pc \notin {"classify", "fold"}
          /\ Len(TopicEvents) \in {0, Len(topics)}
    /\ \A i, j \in DOMAIN events :
          (i < j /\ events[i].type = "summary") => events[j].type # "topic"

C18_Witness ==
    /\ mode = "stream"
    /\ Len(sources) = 2
    /\ Len(TopicEvents) = 2
    /\ Len(SummaryEvents) = 2

\* C19: what provideNews_advanced returns has one element per topic, the
\* element at position i being the summary produced for the topic at
\* position i whatever the order in which the tasks completed; it is empty
\* when no topic was discovered.
C19_BatchReturnsSummaryPerTopic ==
    (mode = "batch" /\ result.kind = "returned") =>
        /\ Len(result.value) = Len(topics)
        /\ \A i \in DOMAIN topics : result.value[i] = SummaryOf(i)

C19_Witness ==
    /\ mode = "batch"
    /\ result.kind = "returned"
    /\ Len(topics) = 2
    /\ result.value = <<SummaryOf(1), SummaryOf(2)>>

\* C20: once the /generate-news handler has answered a request with a
\* non-empty sources list in which no external call failed, update_news has
\* been called exactly once, with one summary per topic, and the response
\* is the success response carrying those summaries.
C20_HandlerPersistsAndReturns ==
    (/\ caller = "generate_news"
     /\ response # NoResponse
     /\ sources # <<>>
     /\ failure.stage = "none") =>
        /\ response.status = 200
        /\ Len(update_news_calls) = 1
        /\ update_news_calls[1] = response.summaries
        /\ Len(response.summaries) = Len(topics)

C22_ProbeNeverRaises ==
    \A i \in DOMAIN headOutcome :
        headOutcome[i] # NoOutcome =>
            /\ isValidUrlAwaited(headOutcome[i]).kind = "returned"
            /\ isValidUrlAwaited(headOutcome[i]).value
                  = (headOutcome[i].kind = "status" /\ headOutcome[i].status < 400)

\* the probes' answers, by position of the suggested source
ProbeAnswer(i) == headOutcome[i].kind = "status" /\ headOutcome[i].status < 400

\* sub is seq restricted to the positions in keep, in the same order
IsSelection(sub, seq, keep) ==
    \E pos \in [DOMAIN sub -> DOMAIN seq] :
        /\ \A a, b \in DOMAIN sub : a < b => pos[a] < pos[b]
        /\ \A a \in DOMAIN sub : sub[a] = seq[pos[a]]
        /\ {pos[a] : a \in DOMAIN sub} = keep

\* C27: what suggestNewsSources returns are the suggested sources whose probe
\* answered true, each once and in the order of the suggestion; no source
\* whose probe answered false is among them.
C27_SuggestedSourcesFiltered ==
    (mode = "suggest" /\ result.kind = "returned") =>
        IsSelection(result.value, suggested,
                    {i \in DOMAIN suggested : ProbeAnswer(i)})

C27_Witness ==
    /\ mode = "suggest"
    /\ result.kind = "returned"
    /\ Len(suggested) = 2
    /\ ~ProbeAnswer(1) /\ ProbeAnswer(2)
    /\ result.value = <<suggested[2]>>

TopicNamesOf(mem) == [i \in DOMAIN mem |-> mem[i].name]

\* C23: the classification requests follow the input order one item at a
\* time: the request made last is for the item at position idx, and its
\* prompt lists the names, in creation order, of exactly the topics the store
\* held when the request was made, which is the store the folds of the items
\* before it left.
C23_PromptFromCurrentStore ==
    idx >= 1 =>
        /\ prompt.content = sources[idx]
        /\ (pc \in {"classify", "fold"} /\ aidx = 0) =>
              prompt.existing_topics = Join(TopicNamesOf(topics))
        /\ (pc \in {"classify", "fold"} /\ aidx = 1) =>
              prompt.existing_topics = Join(TopicNamesOf(before))
        /\ failure.stage = "classify" =>
              prompt.existing_topics = Join(TopicNamesOf(topics))

C23_Witness ==
    /\ idx = 2
    /\ pc = "fold" /\ aidx = 0
    /\ Len(topics) = 1 /\ topics[1].name = Tech
    /\ prompt = [existing_topics |-> Tech, content |-> "B"]

IsPrefix(p, q) == Len(p) <= Len(q) /\ SubSeq(q, 1, Len(p)) = p

\* C24: the topic store is append-only during categorization: a
\* classification leaves it as it is, and after every fold the topics that
\* existed are at their positions with their names, each one's former sources
\* a prefix of its sources; nothing is removed, renamed or reordered.
C24_StoreAppendOnly ==
    /\ (idx >= 1 /\ pc \in {"classify", "fold"} /\ aidx = 0) => topics = before
    /\ Folded =>
          /\ Len(before) <= Len(topics)
          /\ \A i \in DOMAIN before :
                /\ topics[i].name = before[i].name
                /\ IsPrefix(before[i].sources, topics[i].sources)

C24_Witness ==
    /\ Folded
    /\ ~lastAsg.isNew
    /\ Len(before) = 1 /\ before[1].sources = <<"A">>
    /\ Len(topics) = 1 /\ topics[1].sources = <<"A", "B", "u1">>

\* the store of a run that folds the given answers on its own, from the
\* answer at position i on
RECURSIVE Replay(_, _, _, _, _)
Replay(m, srcs, answers, mem, i) ==
    IF i > Len(answers) THEN mem
    ELSE Replay(m, srcs, answers, FoldResponse(m, mem, srcs[i], answers[i]), i + 1)

Alone(r) == Replay(runs[r].mode, runs[r].sources, runs[r].answers, <<>>, 1)

C26_CreatedTopicSources ==
    /\ (Folded /\ Len(topics) > Len(before)) =>
          topics[Len(topics)].sources
              = <<CurrentUrl>> \o SelectSeq(lastAsg.furtherReadings, isValidUrl)
    /\ \A t \in DOMAIN topics :
          /\ topics[t].sources # <<>>
          /\ Contains(sources, Head(topics[t].sources))

\* C28: the summary events come in completion order: the k-th summary event
\* carries the summary returned by the k-th summarization task to complete.
C28_SummariesInCompletionOrder ==
    mode = "stream" =>
        /\ Len(SummaryEvents) = Len(order)
        /\ \A j \in DOMAIN order : SummaryEvents[j].summary = SummaryOf(order[j])

C28_Witness ==
    /\ mode = "stream"
    /\ order = <<2, 1>>
    /\ SummaryEvents[1].summary = SummaryOf(2)
    /\ SummaryEvents[2].summary = SummaryOf(1)

\* C29: a streaming run whose consumer keeps reading and whose external
\* calls each return or fail eventually emits a terminal event.
C29_EventuallyTerminalEvent == <>(events # <<>> /\ IsTerminal(LastEvent))

C29_Witness ==
    /\ mode = "stream"
    /\ failure.stage = "persist"
    /\ Len(topics) = 2
    /\ EndedWith("error")

\* C30: in a streaming run that reached persistence with n topics the
\* indexes of the summary events are 0..n-1, each once, and the buffer handed
\* to db_updater has n slots, none of them the placeholder.
C30_EverySlotWrittenOnce ==
    (mode = "stream" /\ persisted # <<>>) =>
        /\ Len(SummaryEvents) = Len(topics)
        /\ \A j \in DOMAIN SummaryEvents : SummaryEvents[j].index = j - 1
        /\ Len(persisted[1]) = Len(topics)
        /\ \A i \in DOMAIN persisted[1] : persisted[1][i] # EmptyString

C30_Witness ==
    /\ mode = "stream"
    /\ Len(persisted) = 1
    /\ Len(topics) = 2
    /\ EndedWith("done")

\* C31: the topic list is frozen during summarization: once the tasks have
\* been created the store stays what it was at the end of categorization (no
\* topic added, removed or renamed, no sources changed) until the run ends,
\* and every task that ran fetched exactly the sources its topic had then.
C31_TopicsFrozenDuringSummarization ==
    SummarizationBegun =>
        /\ topics = boundary
        /\ Len(fetched) = Len(boundary)
        /\ \A i \in done : fetched[i] = boundary[i].sources

C31_Witness ==
    /\ mode = "stream"
    /\ EndedWith("done")
    /\ done = {1, 2}
    /\ Len(topics[1].sources) >= 2
    /\ fetched[1] = topics[1].sources

C33_BatchAndStreamBuildSameStore ==
    \A r1, r2 \in Runs :
        (/\ runs[r1].mode = "batch" /\ runs[r2].mode = "stream"
         /\ runs[r1].sources = runs[r2].sources
         /\ runs[r1].idx = runs[r2].idx
         /\ runs[r1].answers = runs[r2].answers) =>
            runs[r1].persistent_memory = runs[r2].persistent_memory

\* C34: the model id a request names depends only on the constructor's model
\* id and on the call's online flag: the constructor's id without the flag,
\* the constructor's id followed by one ":online" with it, whatever calls
\* the client served before.
C34_ModelIdFromConstructorAndFlag ==
    \A j \in DOMAIN requests :
        requests[j].model = IF requests[j].online
                            THEN <<ConstructorModelId[1], ":online">>
                            ELSE ConstructorModelId

\* the sources list of the request, empty when the body has none
Submitted == IF body.sources.type = "list" THEN body.sources.items ELSE <<>>

\* the source is an object whose description, name and url are strings with
\* a character that is no whitespace
WellFormed(source) ==
    /\ source.type = "dict"
    /\ \A key \in {"description", "name", "url"} :
          /\ source.fields[key].type = "str"
          /\ \E c \in DOMAIN source.fields[key].chars :
                ~IsSpace(source.fields[key].chars[c])

\* the positions of the submitted sources whose url no earlier source has
FirstOfItsUrl ==
    {i \in DOMAIN Submitted :
        \A j \in 1..(i - 1) : Submitted[j].fields["url"] # Submitted[i].fields["url"]}

\* C35: update_sources is called only when every submitted source is an
\* object with non-blank string fields description, name and url; the list
\* it is called with has no url twice, consists of the first source of each
\* url in the order of submission, and each entry has exactly the three
\* fields; when a source is invalid the answer is 400 and update_sources is
\* not called.
C35_UpdateSourcesValidatesAndDedups ==
    /\ \A c \in DOMAIN update_sources_calls :
          LET saved == update_sources_calls[c]
          IN  /\ \A i \in DOMAIN Submitted : WellFormed(Submitted[i])
              /\ \A a, b \in DOMAIN saved : a # b => saved[a].url # saved[b].url
              /\ \A a \in DOMAIN saved :
                    DOMAIN saved[a] = {"description", "name", "url"}
              /\ IsSelection(saved,
                             [i \in DOMAIN Submitted |->
                                 [key \in {"description", "name", "url"} |->
                                     Submitted[i].fields[key].chars]],
                             FirstOfItsUrl)
    /\ (/\ pc = "responded"
        /\ \E i \in DOMAIN Submitted : ~WellFormed(Submitted[i])) =>
            /\ reply.status = 400
            /\ update_sources_calls = <<>>

C35_Witness ==
    /\ mode = "update_sources"
    /\ reply.status = 200
    /\ Len(Submitted) = 2
    /\ Submitted[1].fields["url"] = Submitted[2].fields["url"]
    /\ Submitted[1].fields["name"] # Submitted[2].fields["name"]
    /\ Submitted[1].fields["id"] # Absent
    /\ Len(update_sources_calls) = 1
    /\ Len(update_sources_calls[1]) = 1
    /\ update_sources_calls[1][1].name = Submitted[1].fields["name"].chars

====
